---- MODULE Spec2Model ----
(***************************************************************************)
(* Content pipeline of OnRiseAI/content-automation.                        *)
(*                                                                         *)
(*   scripts/automation.js   Alert Ingestor: unread alert mails ->         *)
(*                           content_ideas rows (status pending)           *)
(*   scripts/write-posts.js  Post Writer: up to POSTS_PER_DAY pending      *)
(*                           ideas -> blog_posts rows, idea -> processed   *)
(*                                                                         *)
(* The mailbox, the text-completion API and the row store are external;    *)
(* each awaited call on them is one step that either resolves or rejects   *)
(* (for the row store: returns { error }).  The two scripts are separate   *)
(* processes, so their steps interleave at every await.                    *)
(***************************************************************************)
EXTENDS Integers, Sequences, FiniteSets, TLC

\* ------------------------------------------------------------ bounds ----
MaxMsgs  == 2   \* SpecIngestor: messages ever delivered to the inbox
MaxIRuns == 2   \* SpecIngestor: ingestor runs
PipeMsgs == 2   \* Spec: messages ever delivered to the inbox
MaxIdeas == 5   \* SpecWriter: rows of content_ideas in the initial store
MaxScore == 2   \* seo_priority_score values 1..MaxScore
MaxText  == 3   \* SpecText: characters of the texts listed in full
MaxFails == 1   \* SpecRepeat, SpecRace: calls of the writers that fail
MaxRace  == 1   \* SpecRace: rows of content_ideas in the initial store

\* ------------------------------------------------- program constants ----
POSTS_PER_DAY == 3

Scores == 1..MaxScore

\* ---------------------------------------------------------- subjects ----
\* A subject is a sequence of tokens: "G" is the literal text
\* "Google Alert for:" (in any letter case), "s" a whitespace character,
\* "x" and "y" any other character.  NoSubject is a mail without a Subject
\* header (email.subject is undefined).
NoSubject == <<"-">>

Subjects ==
  { <<"G", "s", "x">>,        \* "Google Alert for: x"
    <<"G", "s">>,             \* "Google Alert for: "
    <<"x", "s", "y">>,        \* "x y"
    NoSubject }

\* An HTML body is a sequence of tokens too: tags, "T" and "t" for text
\* characters, "s" for whitespace.  NoHtml is a mail without HTML part.
NoHtml == <<>>

TitledHtml ==
  <<"<h3>", "<b>", "T", "</b>", "s", "</h3>", "<p>", "t", "</p>">>

\* The mail that arrives: any subject from the alerts sender, an alert with
\* an HTML body, and an alert subject from another sender.
Mail ==
  { [from |-> "alerts", subject |-> s, html |-> NoHtml] : s \in Subjects }
    \cup { [from |-> "alerts", subject |-> <<"G", "s", "x">>, html |-> TitledHtml],
            [from |-> "other", subject |-> <<"G", "s", "x">>, html |-> NoHtml] }

\* The mail that arrives in Spec: an alert and a mail that is none.
PipeMail ==
  { [from |-> "alerts", subject |-> s, html |-> NoHtml] :
      s \in { <<"G", "s", "x">>, <<"x", "s", "y">> } }

IsSpace(c) == c = "s"

RECURSIVE TrimStart(_)
TrimStart(s) ==
  IF s # <<>> /\ IsSpace(Head(s)) THEN TrimStart(Tail(s)) ELSE s

RECURSIVE TrimEnd(_)
TrimEnd(s) ==
  IF s # <<>> /\ IsSpace(s[Len(s)]) THEN TrimEnd(SubSeq(s, 1, Len(s) - 1)) ELSE s

\* String.prototype.trim
Trim(s) == TrimEnd(TrimStart(s))

\* The capture group of /\s*(.+)/ matched at the start of rest: \s* is
\* greedy, but gives one character back when it swallowed all of rest.
\* <<>> stands for "no match" (the group itself is never empty).
Capture(rest) ==
  IF rest = <<>> THEN <<>>
  ELSE IF TrimStart(rest) # <<>> THEN TrimStart(rest)
       ELSE <<rest[Len(rest)]>>

\* Positions of the subject where /Google Alert for:\s*(.+)/i matches.
MatchAt(subject) ==
  { p \in 1..Len(subject) :
      subject[p] = "G" /\ Capture(SubSeq(subject, p + 1, Len(subject))) # <<>> }

FirstMatch(subject) ==
  CHOOSE p \in MatchAt(subject) : \A q \in MatchAt(subject) : p <= q

\* alert.query of parseAlert: queryMatch ? queryMatch[1].trim() : ''
Query(subject) ==
  IF MatchAt(subject) = {} THEN <<>>
  ELSE Trim(Capture(SubSeq(subject, FirstMatch(subject) + 1, Len(subject))))

IsTag(c) == c \in {"<h3>", "</h3>", "<b>", "</b>", "<p>", "</p>"}

\* .replace(/<[^>]+>/g, '')
StripTags(s) == SelectSeq(s, LAMBDA c : ~IsTag(c))

\* Positions p of an opening h3 tag that has a closing one after it: where
\* /<h3[^>]*>(.*?)<\/h3>/i matches.
H3At(html) ==
  { p \in 1..Len(html) :
      html[p] = "<h3>" /\ \E q \in (p + 1)..Len(html) : html[q] = "</h3>" }

\* The capture group of the leftmost match: up to the first closing tag.
H3Content(html) ==
  LET p == CHOOSE a \in H3At(html) : \A b \in H3At(html) : a <= b
      q == CHOOSE a \in (p + 1)..Len(html) :
             /\ html[a] = "</h3>"
             /\ \A b \in (p + 1)..(a - 1) : html[b] # "</h3>"
  IN SubSeq(html, p + 1, q - 1)

\* alert.title of parseAlert: the query, or the text of the first h3.
Title(html, query) ==
  IF html = NoHtml \/ H3At(html) = {} THEN query
  ELSE Trim(StripTags(H3Content(html)))

\* ------------------------------------------------------------- state ----
VARIABLES
  mailbox,    \* INBOX: sequence of [from, subject, html, seen]; index =
              \* message id
  ideas,      \* table content_ideas: sequence of rows; index = id
  posts,      \* table blog_posts: sequence of rows
  \* --- ingestor process (runAutomation)
  ipc,        \* "idle" | "loop" | "gen" | "save" | "mark" | "skipmark"
              \* | "catchmark" | "done" | "aborted"
  messages,   \* result of client.search: sequence of message ids
  im,         \* index in messages of the message being handled
  processed, skipped, errors,   \* the run's counters
  alert,      \* [query, title] of the alert parsed from the message
  idea,       \* seo_priority_score of the idea the completion returned
  irun,       \* number of ingestor runs started
  ifail,      \* what threw while handling the current message, or "none"
  isnap,      \* counters and row count when the current message was fetched
  calls,      \* completion calls made by the current ingestor run
  fresh,      \* messages delivered since the latest search
  \* --- writer processes (run), one entry per writer
  wpc,        \* "idle" | "gen" | "meta" | "save" | "update" | "done"
  wideas,     \* result of getPendingIdeas: sequence of idea ids
  wi,         \* index in wideas of the idea being written
  written, werrors,             \* the run's counters
  wrun,       \* number of runs started
  wfail,      \* per idea of wideas: the step that failed, or "none"
  wpend0,     \* ids pending in the store when the run selected
  nfail,      \* calls of the writers that failed, where lim.fails bounds them
  lim,        \* what the behaviour is cut off at: [msgs, iruns, wruns, fails]
  \* --- a text function under test
  fn,         \* the function: "slug80" | "slug100" | "category" | "time",
              \* or "off"
  text,       \* its argument: a sequence of characters
  res,        \* its result
  tdone       \* whether it has been applied

ivars == <<ipc, messages, im, processed, skipped, errors, alert, idea, irun,
           ifail, isnap, calls>>
wvars == <<wpc, wideas, wi, written, werrors, wrun, wfail, wpend0>>
tvars == <<fn, text, res, tdone>>
vars == <<mailbox, ideas, posts, fresh, ivars, wvars, nfail, lim, tvars>>

Writers == {1, 2}

\* ----------------------------------------------------------- helpers ----
Range(s) == { s[k] : k \in DOMAIN s }

Unseen == { u \in DOMAIN mailbox : ~mailbox[u].seen }

\* search mutated: no seen filter.
SearchResultNoSeenFilter ==
  SelectSeq([k \in 1..Len(mailbox) |-> k], LAMBDA u : mailbox[u].from = "alerts")

\* ids a search for { from: alerts sender, seen: false } returns, ascending
SearchResult ==
  SelectSeq([k \in 1..Len(mailbox) |-> k],
            LAMBDA u : mailbox[u].from = "alerts" /\ ~mailbox[u].seen)

RowsOf(u) == Cardinality({ k \in DOMAIN ideas : ideas[k].msg = u })

Pending == { k \in DOMAIN ideas : ideas[k].status = "pending" }

Cur == messages[im]

\* ---------------------------------------------------------- mailbox -----
\* A mail arrives in the inbox.
Deliver(kinds) ==
  /\ Len(mailbox) < lim.msgs
  /\ \E m \in kinds :
       mailbox' = Append(mailbox, [from |-> m.from, subject |-> m.subject,
                                   html |-> m.html, seen |-> FALSE])
  /\ fresh' = fresh \cup {Len(mailbox) + 1}
  /\ UNCHANGED <<ideas, posts, ivars, wvars, nfail, lim, tvars>>

\* client.messageFlagsAdd(uid, ['\\Seen'])
FlagsAddBroken(mb, u) == mb

FlagsAdd(mb, u) == [mb EXCEPT ![u].seen = TRUE]


\* ------------------------------------------------------- the stores -----
\* The row saveContentIdea inserts for alert a (the fields the pipeline
\* reads back); msg and run record the message the row was made from and
\* the ingestor run that made it.
NewIdeaProcessed(u, a, sc) ==
  [id |-> Len(ideas) + 1, msg |-> u, run |-> irun, alert_query |-> a.query,
   source_title |-> a.title, seo_priority_score |-> sc, status |-> "processed"]

NewIdea(u, a, sc) ==
  [id |-> Len(ideas) + 1, msg |-> u, run |-> irun, alert_query |-> a.query,
   source_title |-> a.title, seo_priority_score |-> sc, status |-> "pending"]

\* The row saveBlogPost inserts; by and run record the writer run.
NewPostNoSource(id, w) == [source_idea_id |-> 0, status |-> "draft", by |-> w, run |-> wrun[w]]

NewPost(id, w) == [source_idea_id |-> id, status |-> "draft", by |-> w, run |-> wrun[w]]

\* supabase ... .update({ status: 'processed' }).eq('id', ideaId)
UpdateStatusNoMatch(rows, id) == rows

UpdateStatusAll(rows, id) ==
  [k \in DOMAIN rows |-> [rows[k] EXCEPT !.status = "processed"]]

UpdateStatus(rows, id) ==
  [k \in DOMAIN rows |->
     IF rows[k].id = id THEN [rows[k] EXCEPT !.status = "processed"] ELSE rows[k]]

\* ---------------------------------------------------------- ingestor ----
\* runAutomation up to the search: connect, mailboxOpen, search.
ISearch ==
  /\ ipc \in {"idle", "done", "aborted"}
  /\ irun < lim.iruns
  /\ irun' = irun + 1
  /\ processed' = 0 /\ skipped' = 0 /\ errors' = 0
  /\ calls' = 0 /\ ifail' = "none" /\ im' = 1
  /\ fresh' = {}
  /\ \/ /\ messages' = SearchResult       \* search resolved
        /\ ipc' = IF SearchResult = <<>> THEN "done" ELSE "loop"
     \/ /\ messages' = <<>>               \* connect/open/search rejected
        /\ ipc' = "aborted"
  /\ UNCHANGED <<mailbox, ideas, posts, alert, idea, isnap, wvars, nfail, lim, tvars>>

\* The catch block of the loop body up to its await: errors++.  kind
\* records what threw.
CatchNoCount(kind) ==
  /\ errors' = errors
  /\ ifail' = kind
  /\ ipc' = "catchmark"

Catch(kind) ==
  /\ errors' = errors + 1
  /\ ifail' = kind
  /\ ipc' = "catchmark"

\* Loop head with a message left: fetchOne, simpleParser, parseAlert and
\* the branch on alert.query.
IFetch ==
  /\ ipc = "loop" /\ im <= Len(messages)
  /\ isnap' = [e |-> errors, p |-> processed, s |-> skipped, c |-> calls,
                rows |-> RowsOf(Cur)]
  /\ \/ /\ ipc' = "aborted"               \* fetchOne/simpleParser rejected
        /\ ifail' = "fetch"
        /\ UNCHANGED <<skipped, errors, alert>>
     \/ LET subject == mailbox[Cur].subject IN
           IF subject = NoSubject
           THEN /\ Catch("subject")       \* email.subject.match throws
                /\ UNCHANGED <<skipped, alert>>
           ELSE IF Query(subject) = <<>>
           THEN /\ skipped' = skipped + 1
                /\ ifail' = "none"
                /\ ipc' = "skipmark"
                /\ UNCHANGED <<errors, alert>>
           ELSE /\ alert' = [query |-> Query(subject),
                            title |-> Title(mailbox[Cur].html, Query(subject))]
                /\ ifail' = "none"
                /\ ipc' = "gen"
                /\ UNCHANGED <<skipped, errors>>
  /\ UNCHANGED <<mailbox, ideas, posts, fresh, messages, im, processed, idea,
                 irun, calls, wvars, nfail, lim, tvars>>

\* generateContentIdea: the completion call and JSON.parse of its answer.
IGen ==
  /\ ipc = "gen"
  /\ calls' = calls + 1
  /\ \/ /\ \E sc \in Scores : idea' = sc
        /\ ipc' = "save"
        /\ UNCHANGED <<errors, ifail>>
     \/ /\ Catch("gen")                   \* call rejected or JSON malformed
        /\ UNCHANGED idea
  /\ UNCHANGED <<mailbox, ideas, posts, fresh, messages, im, processed,
                 skipped, alert, irun, isnap, wvars, nfail, lim, tvars>>

\* saveContentIdea: the insert into content_ideas.
ISave ==
  /\ ipc = "save"
  /\ \/ /\ ideas' = Append(ideas, NewIdea(Cur, alert, idea))
        /\ ipc' = "mark"
        /\ UNCHANGED <<errors, ifail>>
     \/ /\ Catch("save")                  \* insert returned an error, or
                                          \* generateSlug threw before it
        /\ UNCHANGED ideas
  /\ UNCHANGED <<mailbox, posts, fresh, messages, im, processed, skipped,
                 alert, idea, irun, isnap, calls, wvars, nfail, lim, tvars>>

\* markAsRead after a successful insert, then processed++.
IMark ==
  /\ ipc = "mark"
  /\ \/ /\ mailbox' = FlagsAdd(mailbox, Cur)
        /\ processed' = processed + 1
        /\ im' = im + 1
        /\ ipc' = "loop"
        /\ UNCHANGED <<errors, ifail>>
     \/ /\ Catch("mark")                  \* messageFlagsAdd rejected
        /\ UNCHANGED <<mailbox, processed, im>>
  /\ UNCHANGED <<ideas, posts, fresh, messages, skipped, alert, idea, irun,
                 isnap, calls, wvars, nfail, lim, tvars>>

\* markAsRead of a message that is not an alert (skipped++ is already done).
ISkipMark ==
  /\ ipc = "skipmark"
  /\ \/ /\ mailbox' = FlagsAdd(mailbox, Cur)
        /\ im' = im + 1
        /\ ipc' = "loop"
        /\ UNCHANGED <<errors, ifail>>
     \/ /\ Catch("skipmark")              \* messageFlagsAdd rejected
        /\ UNCHANGED <<mailbox, im>>
  /\ UNCHANGED <<ideas, posts, fresh, messages, processed, skipped, alert,
                 idea, irun, isnap, calls, wvars, nfail, lim, tvars>>

\* markAsRead in the catch block (errors++ is already done); a rejection
\* here reaches the outer catch, which exits the process.
ICatchMark ==
  /\ ipc = "catchmark"
  /\ \/ /\ mailbox' = FlagsAdd(mailbox, Cur)
        /\ im' = im + 1
        /\ ipc' = "loop"
     \/ /\ ipc' = "aborted"
        /\ UNCHANGED <<mailbox, im>>
  /\ UNCHANGED <<ideas, posts, fresh, messages, processed, skipped, errors,
                 alert, idea, irun, ifail, isnap, calls, wvars, nfail, lim, tvars>>

\* Loop left: the summary line, then logout.
ISummary ==
  /\ ipc = "loop" /\ im > Len(messages)
  /\ ipc' = "done"
  /\ UNCHANGED <<mailbox, ideas, posts, fresh, messages, im, processed,
                 skipped, errors, alert, idea, irun, ifail, isnap, calls, wvars, nfail, lim, tvars>>

\* ------------------------------------------------------------ writer ----
Min(a, b) == IF a < b THEN a ELSE b

PendingOf(rows) == { k \in DOMAIN rows : rows[k].status = "pending" }

\* Sequences of n distinct ids of S, by seo_priority_score descending, such
\* that no id of S left out scores higher than one taken.  Rows of equal
\* score come in any order: the query names no second sort key.
TopBy(rows, S, n) ==
  { s \in [1..n -> S] :
      /\ \A j, k \in 1..n : j < k =>
           /\ s[j] # s[k]
           /\ rows[s[j]].seo_priority_score >= rows[s[k]].seo_priority_score
      /\ \A r \in S \ Range(s) : \A k \in 1..n :
           rows[s[k]].seo_priority_score >= rows[r].seo_priority_score }

\* getPendingIdeas mutated: no status filter.
SelectPendingNoFilter(rows) ==
  TopBy(rows, DOMAIN rows, Min(POSTS_PER_DAY, Len(rows)))

\* The results getPendingIdeas can return when the query succeeds:
\* .eq('status', 'pending').order('seo_priority_score', desc).limit(3)
SelectPending(rows) ==
  TopBy(rows, PendingOf(rows), Min(POSTS_PER_DAY, Cardinality(PendingOf(rows))))

\* End of one iteration of the for loop of run: outcome f is recorded and
\* the loop goes to the next idea, or to the summary after the last one.
NextIdea(w, f) ==
  /\ wfail' = [wfail EXCEPT ![w] = Append(@, f)]
  /\ wi' = [wi EXCEPT ![w] = @ + 1]
  /\ wpc' = [wpc EXCEPT ![w] = IF wi[w] + 1 > Len(wideas[w]) THEN "done" ELSE "gen"]

\* A call of the writer fails: any number of times when lim.fails is
\* negative, else while fewer than lim.fails calls have failed.
Failing ==
  IF lim.fails < 0 THEN nfail' = nfail
  ELSE nfail < lim.fails /\ nfail' = nfail + 1

\* The catch block of the loop body of run: errors++, next idea.
WCatchNoCount(w, f) ==
  /\ werrors' = werrors
  /\ NextIdea(w, f)

WCatch(w, f) ==
  /\ werrors' = [werrors EXCEPT ![w] = @ + 1]
  /\ NextIdea(w, f)

\* run up to the loop: getPendingIdeas and the test for no ideas.
WSelect(w) ==
  /\ wpc[w] \in {"idle", "done"}
  /\ wrun[w] < lim.wruns
  /\ wrun' = [wrun EXCEPT ![w] = @ + 1]
  /\ written' = [written EXCEPT ![w] = 0]
  /\ werrors' = [werrors EXCEPT ![w] = 0]
  /\ wfail' = [wfail EXCEPT ![w] = <<>>]
  /\ wi' = [wi EXCEPT ![w] = 1]
  /\ wpend0' = [wpend0 EXCEPT ![w] = Pending]
  /\ \/ \E s \in SelectPending(ideas) :          \* query succeeded
          /\ wideas' = [wideas EXCEPT ![w] = s]
          /\ wpc' = [wpc EXCEPT ![w] = IF s = <<>> THEN "done" ELSE "gen"]
          /\ UNCHANGED nfail
     \/ /\ wideas' = [wideas EXCEPT ![w] = <<>>] \* query error: return []
        /\ wpc' = [wpc EXCEPT ![w] = "done"]
        /\ Failing
  /\ UNCHANGED <<mailbox, ideas, posts, fresh, ivars, lim, tvars>>

\* generateBlogPost: the content completion.
WGen(w) ==
  /\ wpc[w] = "gen"
  /\ \/ /\ wpc' = [wpc EXCEPT ![w] = "meta"]
        /\ UNCHANGED <<werrors, wfail, wi, nfail>>
     \/ WCatch(w, "content") /\ Failing              \* call rejected
  /\ UNCHANGED <<mailbox, ideas, posts, fresh, ivars, wideas, written, wrun, wpend0, lim, tvars>>

\* generateMetaDescription: the meta description completion (it also
\* throws on an answer without content).
WMeta(w) ==
  /\ wpc[w] = "meta"
  /\ \/ /\ wpc' = [wpc EXCEPT ![w] = "save"]
        /\ UNCHANGED <<werrors, wfail, wi, nfail>>
     \/ WCatch(w, "meta") /\ Failing                 \* call rejected
  /\ UNCHANGED <<mailbox, ideas, posts, fresh, ivars, wideas, written, wrun, wpend0, lim, tvars>>

\* saveBlogPost: the insert into blog_posts; an error is thrown, as is a
\* TypeError of generateSlug before the insert.
WSave(w) ==
  /\ wpc[w] = "save"
  /\ \/ /\ posts' = Append(posts, NewPost(wideas[w][wi[w]], w))
        /\ wpc' = [wpc EXCEPT ![w] = "update"]
        /\ UNCHANGED <<werrors, wfail, wi, nfail>>
     \/ /\ WCatch(w, "insert")                        \* insert returned an error
        /\ Failing
        /\ UNCHANGED posts
  /\ UNCHANGED <<mailbox, ideas, fresh, ivars, wideas, written, wrun, wpend0, lim, tvars>>

\* markIdeaAsProcessed, then written++; an error of the update is logged
\* and not thrown.
WUpdate(w) ==
  /\ wpc[w] = "update"
  /\ \/ /\ ideas' = UpdateStatus(ideas, wideas[w][wi[w]])
        /\ NextIdea(w, "none")
        /\ UNCHANGED nfail
     \/ /\ NextIdea(w, "update")                      \* update returned an error
        /\ Failing
        /\ UNCHANGED ideas
  /\ written' = [written EXCEPT ![w] = @ + 1]
  /\ UNCHANGED <<mailbox, posts, fresh, ivars, wideas, werrors, wrun, wpend0, lim, tvars>>

\* ---------------------------------------------------- specifications ----
InitIngestor ==
  /\ ipc = "idle" /\ messages = <<>> /\ im = 1
  /\ processed = 0 /\ skipped = 0 /\ errors = 0
  /\ alert = [query |-> <<>>, title |-> <<>>] /\ idea = 1 /\ irun = 0
  /\ ifail = "none" /\ isnap = [e |-> 0, p |-> 0, s |-> 0, c |-> 0, rows |-> 0]
  /\ calls = 0 /\ fresh = {}

InitWriters ==
  /\ wpc = [w \in Writers |-> "idle"]
  /\ wideas = [w \in Writers |-> <<>>]
  /\ wi = [w \in Writers |-> 1]
  /\ written = [w \in Writers |-> 0]
  /\ werrors = [w \in Writers |-> 0]
  /\ wrun = [w \in Writers |-> 0]
  /\ wfail = [w \in Writers |-> <<>>]
  /\ wpend0 = [w \in Writers |-> {}]
  /\ nfail = 0

\* No text function is under test.
InitNoText == fn = "off" /\ text = <<>> /\ res = <<>> /\ tdone = FALSE

InitEmpty ==
  /\ mailbox = <<>> /\ ideas = <<>> /\ posts = <<>>
  /\ InitIngestor /\ InitWriters /\ InitNoText

\* The pipeline from an empty inbox and an empty store: mail arrives, one
\* ingestor run and one writer run overlap in any interleaving.
Init ==
  /\ InitEmpty
  /\ lim = [msgs |-> PipeMsgs, iruns |-> 1, wruns |-> 1, fails |-> -1]

Next ==
  \/ Deliver(PipeMail)
  \/ ISearch \/ IFetch \/ IGen \/ ISave \/ IMark \/ ISkipMark \/ ICatchMark
  \/ ISummary
  \/ WSelect(1) \/ WGen(1) \/ WMeta(1) \/ WSave(1) \/ WUpdate(1)

Spec == Init /\ [][Next]_vars

\* The ingestor alone: mail arrives and the ingestor runs, again and again.
InitIngestorOnly ==
  /\ InitEmpty
  /\ lim = [msgs |-> MaxMsgs, iruns |-> MaxIRuns, wruns |-> 0, fails |-> -1]

NextIngestor ==
  \/ Deliver(Mail)
  \/ ISearch \/ IFetch \/ IGen \/ ISave \/ IMark \/ ISkipMark \/ ICatchMark
  \/ ISummary

SpecIngestor == InitIngestorOnly /\ [][NextIngestor]_vars

\* One writer run over a store that earlier runs left: n ideas of any
\* scores, each either pending or already processed with its draft post.
\* The store's operations read score and status and never compare ids, so
\* every store is listed once, its rows numbered by (score, status).
InitKey(t) == 2 * t[1] + (IF t[2] = "processed" THEN 1 ELSE 0)

InitWriter ==
  /\ \E n \in 0..MaxIdeas :
       \E ty \in [1..n -> Scores \X {"pending", "processed"}] :
         /\ \A j, k \in 1..n : j < k => InitKey(ty[j]) <= InitKey(ty[k])
         /\ mailbox = [k \in 1..n |->
                         [from |-> "alerts", subject |-> <<"G", "s", "x">>,
                          html |-> NoHtml, seen |-> TRUE]]
         /\ ideas = [k \in 1..n |->
                       [id |-> k, msg |-> k, run |-> 0, alert_query |-> <<"x">>,
                        source_title |-> <<"x">>,
                        seo_priority_score |-> ty[k][1], status |-> ty[k][2]]]
         /\ posts = [j \in 1..Cardinality({k \in 1..n : ty[k][2] = "processed"}) |->
                       [source_idea_id |->
                          CHOOSE k \in 1..n :
                            /\ ty[k][2] = "processed"
                            /\ Cardinality({m \in 1..k : ty[m][2] = "processed"}) = j,
                        status |-> "draft", by |-> 1, run |-> 0]]
  /\ InitIngestor /\ InitWriters /\ InitNoText
  /\ lim = [msgs |-> 0, iruns |-> 0, wruns |-> 1, fails |-> -1]

NextWriter ==
  WSelect(1) \/ WGen(1) \/ WMeta(1) \/ WSave(1) \/ WUpdate(1)

SpecWriter == InitWriter /\ [][NextWriter]_vars

\* A store of n pending ideas that no writer has seen: rows numbered by
\* score, no posts.
InitStore(n) ==
  /\ \E sc \in [1..n -> Scores] :
       /\ \A j, k \in 1..n : j < k => sc[j] <= sc[k]
       /\ mailbox = [k \in 1..n |->
                       [from |-> "alerts", subject |-> <<"G", "s", "x">>,
                        html |-> NoHtml, seen |-> TRUE]]
       /\ ideas = [k \in 1..n |->
                     [id |-> k, msg |-> k, run |-> 0, alert_query |-> <<"x">>,
                      source_title |-> <<"x">>,
                      seo_priority_score |-> sc[k], status |-> "pending"]]
  /\ posts = <<>>
  /\ InitIngestor /\ InitWriters /\ InitNoText

\* The writer run again and again over a store that gets no new ideas, of
\* up to one idea more than a run selects; at most MaxFails calls fail, so
\* that every call succeeds when retried often enough, and the runs are as
\* many as it takes to write every idea: two and one more for every call
\* that fails.
InitRepeat ==
  /\ \E n \in 0..(POSTS_PER_DAY + 1) : InitStore(n)
  /\ lim = [msgs |-> 0, iruns |-> 0, wruns |-> 2 + MaxFails, fails |-> MaxFails]

\* The scheduler starts the writer at every tick and every awaited call
\* returns: no step of the writer waits forever.
SpecRepeat == InitRepeat /\ [][NextWriter]_vars /\ WF_vars(NextWriter)

\* Two writers, one run each, over the same store.
InitRace ==
  /\ \E n \in 0..MaxRace : InitStore(n)
  /\ lim = [msgs |-> 0, iruns |-> 0, wruns |-> 1, fails |-> MaxFails]

NextRace ==
  \E w \in Writers :
    WSelect(w) \/ WGen(w) \/ WMeta(w) \/ WSave(w) \/ WUpdate(w)

SpecRace == InitRace /\ [][NextRace]_vars

\* ------------------------------------------------- text functions ----
\* A text is a sequence of characters.  The characters of the model:
\* letters of both cases, a digit, the underscore (the word characters,
\* \w), whitespace (\s), the hyphen and punctuation.
UpperLetters == {"A", "B", "F", "H", "W"}

LowerLetters == {"a", "b", "d", "e", "f", "h", "l", "o", "r", "w"}

IsWordChar(c) == c \in UpperLetters \cup LowerLetters \cup {"7", "_"}

IsWhite(c) == c \in {" ", "\t", "\n"}

\* toLowerCase on one character.
ToLower(c) ==
  CASE c = "A" -> "a" [] c = "B" -> "b" [] c = "F" -> "f"
    [] c = "H" -> "h" [] c = "W" -> "w" [] OTHER -> c

ToLowerCase(t) == [k \in 1..Len(t) |-> ToLower(t[k])]

\* .replace(/[^\w\s-]/g, '')
DeleteOther(t) ==
  SelectSeq(t, LAMBDA c : IsWordChar(c) \/ IsWhite(c) \/ c = "-")

\* .replace(/\s+/g, '-'): a hyphen for the first character of each
\* whitespace run, nothing ("") for its other characters.
HyphenateEach(t) ==
  [k \in 1..Len(t) |-> IF IsWhite(t[k]) THEN "-" ELSE t[k]]

HyphenateRuns(t) ==
  SelectSeq([k \in 1..Len(t) |->
               IF ~IsWhite(t[k]) THEN t[k]
               ELSE IF k > 1 /\ IsWhite(t[k - 1]) THEN "" ELSE "-"],
            LAMBDA c : c # "")

\* .substring(0, n)
Substring(t, n) == SubSeq(t, 1, IF n < Len(t) THEN n ELSE Len(t))

PostSlugLen == 80

IdeaSlugLen == 100

\* generateSlug of write-posts.js and generateSlug of automation.js.
GenerateSlug(title) ==
  Substring(HyphenateRuns(DeleteOther(ToLowerCase(title))), PostSlugLen)

GenerateIdeaSlug(t) ==
  Substring(HyphenateRuns(DeleteOther(ToLowerCase(t))), IdeaSlugLen)

\* content.split(/\s+/): the pieces between the whitespace runs, the empty
\* piece before a leading run and after a trailing run included.  The
\* pieces of a text are put together from the pieces of its two halves:
\* where both halves have whitespace at the cut, the run goes on across it
\* and the two empty pieces at the cut fall away, else the pieces at the
\* cut are one piece.
RECURSIVE SplitWhite(_)
SplitWhite(t) ==
  IF t = <<>> THEN << <<>> >>
  ELSE IF Len(t) = 1 THEN (IF IsWhite(t[1]) THEN << <<>>, <<>> >> ELSE <<t>>)
  ELSE LET h == Len(t) \div 2
           l == SplitWhite(SubSeq(t, 1, h))
           r == SplitWhite(SubSeq(t, h + 1, Len(t)))
       IN IF IsWhite(t[h]) /\ IsWhite(t[h + 1])
          THEN SubSeq(l, 1, Len(l) - 1) \o Tail(r)
          ELSE SubSeq(l, 1, Len(l) - 1) \o <<l[Len(l)] \o r[1]>> \o Tail(r)

WordsPerMinute == 200

\* Math.ceil(a / b) for a >= 0, b > 0.
Ceil(a, b) == (a + b - 1) \div b

CalculateReadingTime(content) ==
  LET words == Len(SplitWhite(content)) IN Ceil(words, WordsPerMinute)

\* The texts the functions are applied to: every text of up to MaxText
\* characters of Chars, the title "Hello, World! Foo_Bar", a title longer
\* than both slug lengths, and contents of n one-letter words, with or
\* without whitespace before the first and after the last.
Chars == {"A", "a", "_", "-", " ", ","}

ShortTexts == UNION { [1..n -> Chars] : n \in 0..MaxText }

HelloWorld ==
  <<"H", "e", "l", "l", "o", ",", " ", "W", "o", "r", "l", "d", "!", " ",
    "F", "o", "o", "_", "B", "a", "r">>

LongTitle == [k \in 1..120 |-> IF k % 4 = 0 THEN " " ELSE "B"]

WordsOf(n, lead, trail) ==
  (IF lead THEN <<"\n">> ELSE <<>>)
    \o [k \in 1..(IF n = 0 THEN 0 ELSE 2 * n - 1) |->
          IF k % 2 = 1 THEN "a" ELSE " "]
    \o (IF trail THEN <<"\n">> ELSE <<>>)

Contents ==
  { WordsOf(n, l, t) : n \in {0, 1, 199, 200, 201, 400, 401}, l, t \in BOOLEAN }

Titles == ShortTexts \cup {HelloWorld, LongTitle}

CallGenerateSlug ==
  /\ fn = "slug80" /\ ~tdone
  /\ res' = GenerateSlug(text)
  /\ tdone' = TRUE
  /\ UNCHANGED <<mailbox, ideas, posts, fresh, ivars, wvars, nfail, lim, fn, text>>

CallGenerateIdeaSlug ==
  /\ fn = "slug100" /\ ~tdone
  /\ res' = GenerateIdeaSlug(text)
  /\ tdone' = TRUE
  /\ UNCHANGED <<mailbox, ideas, posts, fresh, ivars, wvars, nfail, lim, fn, text>>

CallCalculateReadingTime ==
  /\ fn = "time" /\ ~tdone
  /\ res' = CalculateReadingTime(text)
  /\ tdone' = TRUE
  /\ UNCHANGED <<mailbox, ideas, posts, fresh, ivars, wvars, nfail, lim, fn, text>>

\* One call of a text function on one text.
InitText ==
  /\ mailbox = <<>> /\ ideas = <<>> /\ posts = <<>>
  /\ InitIngestor /\ InitWriters
  /\ lim = [msgs |-> 0, iruns |-> 0, wruns |-> 0, fails |-> -1]
  /\ tdone = FALSE
  /\ \/ fn \in {"slug80", "slug100"} /\ text \in Titles /\ res = <<>>
     \/ fn = "time" /\ text \in ShortTexts \cup Contents /\ res = 0

NextText ==
  CallGenerateSlug \/ CallGenerateIdeaSlug \/ CallCalculateReadingTime

SpecText == InitText /\ [][NextText]_vars

\* ------------------------------------------------- ingestor claims ----
\* Index in messages of the message fetched last, and that message.
Last == IF ipc \in {"loop", "done"} THEN im - 1 ELSE im

LastMsg == messages[Last]

\* The message LastMsg was fetched and parsed in the current run.
Fetched == Last \in DOMAIN messages /\ ifail # "fetch"

\* Outcomes of handling LastMsg.
IdeaSaved == RowsOf(LastMsg) > isnap.rows

Skipped == skipped > isnap.s

GenFailed == ifail \in {"gen", "save"}

\* C1 as stated: when an ingestor run has ended, every message the search
\* returned and that was handled with one of the outcomes idea saved,
\* skipped, or generation/insert failed, is marked read.
C1_Original ==
  ipc \in {"done", "aborted"} =>
    \A k \in DOMAIN messages :
      (k < Last \/ (k = Last /\ Fetched /\ (IdeaSaved \/ Skipped \/ GenFailed)))
        => mailbox[messages[k]].seen

\* C1 amended: the loop leaves a message only when it is marked read, so a
\* run that has reached its summary has marked every message that its
\* search returned; an aborted run has marked those before the one it
\* failed at.
C1_MarkedRead ==
  /\ ipc = "done" => im = Len(messages) + 1
  /\ \A k \in DOMAIN messages : k < im => mailbox[messages[k]].seen

C1_Witness ==
  /\ ipc = "done" /\ Len(messages) = 2
  /\ processed = 1 /\ errors = 1 /\ GenFailed
  /\ \A k \in DOMAIN messages : mailbox[messages[k]].seen

\* C2: every message of the mailbox has at most one row in content_ideas,
\* over any number of ingestor runs.
C2_AtMostOneRow == \A u \in DOMAIN mailbox : RowsOf(u) <= 1

\* C5 as stated: when the completion call, the JSON parse or the insert
\* failed for a message, the error counter went up by exactly one for it,
\* the processed counter did not, the message got no row, and the run goes
\* on (it is not aborted).
C5_Original ==
  (Fetched /\ GenFailed) =>
    /\ errors = isnap.e + 1
    /\ processed = isnap.p
    /\ RowsOf(LastMsg) = isnap.rows
    /\ ipc # "aborted"

\* C5 amended: the counters and the store are as stated; the run goes on
\* with the next message when the mark-read call of the catch block
\* succeeds, and is aborted when that call is rejected.
C5_FailureCounted ==
  /\ [](Fetched /\ GenFailed =>
          /\ errors = isnap.e + 1
          /\ processed = isnap.p
          /\ RowsOf(LastMsg) = isnap.rows
          /\ ipc \in {"catchmark", "loop", "done", "aborted"}
          /\ ipc \in {"loop", "done"} => mailbox[LastMsg].seen)
  /\ [][(ipc = "catchmark" /\ GenFailed /\ ipc' # ipc) =>
          \/ /\ mailbox'[Cur].seen
             /\ ipc' = "loop" /\ im' = im + 1
             /\ UNCHANGED <<messages, processed, skipped, errors, ideas>>
          \/ /\ ~mailbox'[Cur].seen
             /\ ipc' = "aborted"]_vars

C5_Witness ==
  /\ ipc = "loop" /\ im = 2 /\ Len(messages) = 2
  /\ Fetched /\ GenFailed
  /\ errors = 1 /\ processed = 0
  /\ RowsOf(messages[1]) = 0 /\ mailbox[messages[1]].seen

\* C8: a fetched message whose subject gives an empty query causes no
\* completion call and no insert, is counted as skipped once and not as an
\* error, and is marked read once its handling is over.
C8_SkipNotError ==
  (Fetched /\ mailbox[LastMsg].subject # NoSubject
           /\ Query(mailbox[LastMsg].subject) = <<>>) =>
    /\ calls = isnap.c
    /\ RowsOf(LastMsg) = isnap.rows
    /\ skipped = isnap.s + 1
    /\ errors = isnap.e
    /\ ipc \in {"loop", "done"} => mailbox[LastMsg].seen

\* C9: a run whose search returns nothing changes neither table nor any
\* flag, makes no completion call and ends with all counters 0; and after
\* a run that reached its summary the only unread alert mail is mail that
\* arrived after that run's search, so that running again at once is such
\* a run.
C9_EmptyRunChangesNothing ==
  /\ []((ipc = "done" /\ messages = <<>>) =>
          (processed = 0 /\ skipped = 0 /\ errors = 0 /\ calls = 0))
  /\ [](ipc = "done" => Range(SearchResult) \subseteq fresh)
  /\ [][(irun' # irun /\ SearchResult = <<>>) =>
          /\ UNCHANGED <<mailbox, ideas, posts>>
          /\ messages' = <<>>
          /\ ipc' \in {"done", "aborted"}
          /\ processed' = 0 /\ skipped' = 0 /\ errors' = 0 /\ calls' = 0]_vars

C9_Witness ==
  /\ ipc = "done" /\ irun = 2 /\ messages = <<>>
  /\ fresh = {} /\ ideas # <<>>
  /\ processed = 0 /\ skipped = 0 /\ errors = 0

\* --------------------------------------------------- writer claims ----
Score(k) == ideas[k].seo_priority_score

\* Posts that writer w inserted for idea id in its current run.
PostsInRun(w, id) ==
  Cardinality({ j \in DOMAIN posts :
                  /\ posts[j].source_idea_id = id
                  /\ posts[j].by = w /\ posts[j].run = wrun[w] })

\* No step of the run of writer w failed: the select returned rows and no
\* idea handled so far has a failed step.
NoFailure(w) ==
  /\ wideas[w] # <<>>
  /\ \A k \in DOMAIN wfail[w] : wfail[w][k] = "none"

\* C3: the ideas a writer run selects are at most 3, all pending when
\* selected, in descending order of seo_priority_score, and no pending
\* idea left out scores higher than one selected; a run that found 5 ideas
\* pending and had no failure ends with exactly 3 of them processed, the
\* 3 of highest score, and the other 2 pending.
C3_Selection ==
  /\ [][wrun'[1] # wrun[1] =>
          LET s == wideas'[1] IN
            /\ Len(s) <= 3
            /\ \A k \in DOMAIN s : s[k] \in Pending
            /\ \A j, k \in DOMAIN s : j < k => (s[j] # s[k] /\ Score(s[j]) >= Score(s[k]))
            /\ \A k \in DOMAIN s : \A r \in Pending \ Range(s) : Score(s[k]) >= Score(r)]_vars
  /\ []((wpc[1] = "done" /\ Cardinality(wpend0[1]) = 5 /\ NoFailure(1)) =>
          LET P == { k \in wpend0[1] : ideas[k].status = "processed" } IN
            /\ Cardinality(P) = 3
            /\ \A k \in wpend0[1] \ P : ideas[k].status = "pending"
            /\ \A a \in P : \A b \in wpend0[1] \ P : Score(a) >= Score(b)
            /\ \A a \in P : PostsInRun(1, a) = 1
            /\ written[1] = 3 /\ werrors[1] = 0)

C3_Witness ==
  /\ wpc[1] = "done" /\ Cardinality(wpend0[1]) = 5 /\ NoFailure(1)
  /\ Cardinality({ k \in wpend0[1] : ideas[k].status = "processed" }) = 3
  /\ Cardinality({ k \in wpend0[1] : ideas[k].status = "pending" }) = 2
  /\ \E a, b \in wpend0[1] : Score(a) # Score(b)

\* C4: when a writer run has ended, every post it inserted has the id of
\* exactly one idea as source_idea_id, and that idea is processed.
C4_PostsTraceToProcessed ==
  wpc[1] = "done" =>
    \A j \in DOMAIN posts :
      (posts[j].by = 1 /\ posts[j].run = wrun[1]) =>
        /\ Cardinality({ k \in DOMAIN ideas : ideas[k].id = posts[j].source_idea_id }) = 1
        /\ \A k \in DOMAIN ideas :
             ideas[k].id = posts[j].source_idea_id => ideas[k].status = "processed"

\* C6: a run over three selected ideas in which a completion call threw
\* for exactly one of them and nothing else failed ends with that idea
\* pending and without a post of this run, the two others processed with
\* one post of this run each, written = 2 and errors = 1.
C6_OneCompletionFails ==
  (wpc[1] = "done" /\ Len(wideas[1]) = 3) =>
    \A f \in 1..3 :
      (/\ wfail[1][f] \in {"content", "meta"}
       /\ \A k \in 1..3 : k # f => wfail[1][k] = "none") =>
        /\ wideas[1][f] \in Pending
        /\ PostsInRun(1, wideas[1][f]) = 0
        /\ \A k \in 1..3 : k # f =>
             /\ ideas[wideas[1][k]].status = "processed"
             /\ PostsInRun(1, wideas[1][k]) = 1
        /\ written[1] = 2 /\ werrors[1] = 1

C6_Witness ==
  /\ wpc[1] = "done" /\ Len(wideas[1]) = 3
  /\ wfail[1] = <<"none", "content", "none">>
  /\ wideas[1][2] \in Pending
  /\ written[1] = 2 /\ werrors[1] = 1

\* C7: when a writer run has ended, its error counter equals the number of
\* ideas for which one of the four steps failed.
C7_EveryErrorCounted ==
  wpc[1] = "done" =>
    werrors[1] = Cardinality({ k \in DOMAIN wfail[1] : wfail[1][k] # "none" })

\* ------------------------------------------------- pipeline claims -----
\* C10: no step removes a row of content_ideas or changes a row's id; a row
\* appears with status pending, put there by the ingestor's insert; a
\* status changes only from pending to processed, and only in the
\* writer's update step.
C10_Lifecycle ==
  [][/\ Len(ideas') >= Len(ideas)
     /\ \A k \in DOMAIN ideas :
          /\ ideas'[k].id = ideas[k].id
          /\ ideas'[k].status # ideas[k].status =>
               /\ ideas[k].status = "pending" /\ ideas'[k].status = "processed"
               /\ \E w \in Writers : wpc[w] = "update" /\ wpc'[w] # "update"
               /\ UNCHANGED ivars
     /\ \A k \in DOMAIN ideas' \ DOMAIN ideas :
          /\ ideas'[k].status = "pending"
          /\ ipc = "save" /\ ipc' = "mark"
          /\ UNCHANGED wvars]_vars

C10_Witness ==
  /\ Len(ideas) = 2
  /\ ideas[1].status = "processed" /\ ideas[2].status = "pending"
  /\ ipc = "done" /\ wpc[1] = "done"

\* ------------------------------------------- saved ideas (ingestor) ----
\* The newest row of content_ideas.
NewestIdea == ideas[Len(ideas)]

\* C11: a fetched message with a non-empty query whose completion call and
\* insert succeeded has exactly one new row, pending, with the query and
\* the title extracted from the message; and once its handling is over the
\* message is marked read and counted as processed once, not as an error.
C11_SavedAndCounted ==
  (Fetched /\ IdeaSaved) =>
    /\ RowsOf(LastMsg) = isnap.rows + 1
    /\ NewestIdea.msg = LastMsg
    /\ NewestIdea.status = "pending"
    /\ NewestIdea.alert_query = Query(mailbox[LastMsg].subject)
    /\ NewestIdea.source_title =
         Title(mailbox[LastMsg].html, Query(mailbox[LastMsg].subject))
    /\ ipc \in {"loop", "done"} =>
         /\ mailbox[LastMsg].seen
         /\ processed = isnap.p + 1
         /\ errors = isnap.e

\* C18: when a run that found at least one message reaches its summary,
\* its three counters add up to the number of messages found.
C18_CountersAddUp ==
  (ipc = "done" /\ messages # <<>>) =>
    processed + skipped + errors = Len(messages)

\* Rows of content_ideas that the current ingestor run inserted.
RowsOfRun == { k \in DOMAIN ideas : ideas[k].run = irun }

\* C19: when an ingestor run has reached its summary, processed is the
\* number of rows the run inserted; and a message counted as an error got
\* no row.
C19_ProcessedCountsRows ==
  /\ (ipc = "done" /\ irun > 0) => processed = Cardinality(RowsOfRun)
  /\ (Fetched /\ errors > isnap.e) => RowsOf(LastMsg) = isnap.rows

\* ---------------------------------------------- text function claims ----
\* The slug read off the text position by position.  A character stays
\* when it is a word character or a hyphen, or when it is whitespace and
\* the nearest character before it that is not punctuation is not
\* whitespace; what stays of whitespace is a hyphen, of any other
\* character its lower case.
Stays(t, k) ==
  \/ IsWordChar(t[k]) \/ t[k] = "-"
  \/ /\ IsWhite(t[k])
     /\ \A m \in 1..(k - 1) :
          IsWhite(t[m]) =>
            \E j \in (m + 1)..(k - 1) : IsWordChar(t[j]) \/ t[j] = "-"

SlugScan(t) ==
  LET kept == SelectSeq([k \in 1..Len(t) |-> k], LAMBDA k : Stays(t, k))
  IN [j \in 1..Len(kept) |->
        IF IsWhite(t[kept[j]]) THEN "-" ELSE ToLower(t[kept[j]])]

IsPrefix(a, b) == Len(a) <= Len(b) /\ a = SubSeq(b, 1, Len(a))

SlugLen == IF fn = "slug80" THEN PostSlugLen ELSE IdeaSlugLen

HelloWorldFoobar ==
  <<"h", "e", "l", "l", "o", "-", "w", "o", "r", "l", "d", "-",
    "f", "o", "o", "b", "a", "r">>

HelloWorldFoo_Bar ==
  <<"h", "e", "l", "l", "o", "-", "w", "o", "r", "l", "d", "-",
    "f", "o", "o", "_", "b", "a", "r">>

\* C12 as stated: the slug of "Hello, World! Foo_Bar" is
\* "hello-world-foobar".
C12_Original ==
  (tdone /\ fn = "slug80" /\ text = HelloWorld) => res = HelloWorldFoobar

\* C12 amended: a slug is the first maxLen characters of the text in lower
\* case without the characters that are neither word characters (the
\* underscore is one), whitespace nor hyphens, and with one hyphen for
\* each whitespace run; the slug of "Hello, World! Foo_Bar" is
\* "hello-world-foo_bar".
C12_Slug ==
  (tdone /\ fn \in {"slug80", "slug100"}) =>
    /\ Len(res) = (IF Len(SlugScan(text)) < SlugLen
                   THEN Len(SlugScan(text)) ELSE SlugLen)
    /\ IsPrefix(res, SlugScan(text))
    /\ \A k \in DOMAIN res :
         res[k] \in LowerLetters \cup {"7", "_", "-"}
    /\ text = HelloWorld => res = HelloWorldFoo_Bar

C12_Witness ==
  /\ tdone /\ fn = "slug80" /\ text = HelloWorld
  /\ res = HelloWorldFoo_Bar

\* The words of a text: its maximal runs of characters that are not
\* whitespace, counted at their first characters.
WordCount(t) ==
  Cardinality({ k \in 1..Len(t) :
                  ~IsWhite(t[k]) /\ (k = 1 \/ IsWhite(t[k - 1])) })

\* C13: the reading time of a content is its number of words divided by
\* 200, rounded up, whatever whitespace is before its first and after its
\* last word.
C13_ReadingTime ==
  (tdone /\ fn = "time") =>
    \E q \in 0..Len(text) :
      /\ res = q
      /\ 200 * (q - 1) < WordCount(text)
      /\ WordCount(text) <= 200 * q

\* Rows of blog_posts written for idea id.
PostsOf(id) == { j \in DOMAIN posts : posts[j].source_idea_id = id }

\* ------------------------------------- ingestor and writer overlapping ----
\* C16: a step of the ingestor changes no post and no row of content_ideas
\* that is there, and the rows it adds are pending; the writer selects only
\* ideas that are in the store as pending, adds no idea and changes only
\* ideas it selected; and at no point has an idea two posts, or is an idea
\* processed without a post.
C16_OverlapIsSafe ==
  /\ [][ivars' # ivars =>
          /\ posts' = posts
          /\ Len(ideas') >= Len(ideas)
          /\ \A k \in DOMAIN ideas : ideas'[k] = ideas[k]
          /\ \A k \in DOMAIN ideas' \ DOMAIN ideas : ideas'[k].status = "pending"]_vars
  /\ [][wvars' # wvars =>
          /\ wrun' # wrun => Range(wideas'[1]) \subseteq Pending
          /\ Len(ideas') = Len(ideas)
          /\ \A k \in DOMAIN ideas :
               ideas'[k] # ideas[k] => ideas[k].id = wideas[1][wi[1]]]_vars
  /\ [](\A k \in DOMAIN ideas :
          /\ Cardinality(PostsOf(ideas[k].id)) <= 1
          /\ ideas[k].status = "processed" => PostsOf(ideas[k].id) # {})

\* The ingestor saved idea 2 after the writer had selected, and both runs
\* have ended.
C16_Witness ==
  /\ ipc = "done" /\ wpc[1] = "done"
  /\ Len(ideas) = 2 /\ wideas[1] = <<1>> /\ wpend0[1] = {1}
  /\ ideas[1].status = "processed" /\ PostsOf(1) # {}
  /\ ideas[2].status = "pending" /\ PostsOf(2) = {}
  /\ processed = 2 /\ written[1] = 1

\* C17: every processed idea has a post with its id as source_idea_id, and
\* the step that sets an idea processed finds the post its run inserted.
C17_ProcessedHasPost ==
  /\ [](\A k \in DOMAIN ideas :
          ideas[k].status = "processed" => PostsOf(ideas[k].id) # {})
  /\ [][\A k \in DOMAIN ideas :
          ideas'[k].status # ideas[k].status =>
            /\ wpc[1] = "update" /\ wideas[1][wi[1]] = ideas[k].id
            /\ PostsInRun(1, ideas[k].id) = 1]_vars

\* One idea is processed, with its post, and the insert for another failed.
C17_Witness ==
  /\ wpc[1] = "done"
  /\ \E a, b \in DOMAIN wfail[1] :
       /\ wfail[1][a] = "none" /\ wfail[1][b] = "insert"
       /\ ideas[wideas[1][a]].status = "processed"
       /\ PostsOf(wideas[1][a]) # {}
       /\ wideas[1][b] \in Pending /\ PostsOf(wideas[1][b]) = {}

\* ---------------------------------------------------- two writers ----
\* Where idea id stands in the selection of writer w (0: not selected).
PlaceOf(w, id) ==
  IF id \in Range(wideas[w])
  THEN CHOOSE k \in DOMAIN wideas[w] : wideas[w][k] = id ELSE 0

\* Writer w has selected idea id and has not yet run its update for it.
Holds(w, id) ==
  /\ PlaceOf(w, id) > 0
  /\ wpc[w] \in {"gen", "meta", "save", "update"}
  /\ wi[w] <= PlaceOf(w, id)

\* C15: while one writer holds a pending idea that it selected, the select
\* of the other writer can return that idea too; and when both writers
\* selected an idea and neither failed before or at its insert, the idea
\* has two posts, one of each writer.
C15_BothSelectAndInsert ==
  /\ \A id \in Pending : \A w \in Writers :
       (/\ Holds(w, id)
        /\ wpc[3 - w] = "idle"
        /\ Cardinality(Pending) <= POSTS_PER_DAY) =>
         ENABLED (WSelect(3 - w) /\ id \in Range(wideas'[3 - w]))
  /\ (wpc[1] = "done" /\ wpc[2] = "done") =>
       \A id \in DOMAIN ideas :
         (\A w \in Writers :
            /\ PlaceOf(w, id) > 0
            /\ wfail[w][PlaceOf(w, id)] \in {"none", "update"}) =>
           /\ Cardinality(PostsOf(id)) = 2
           /\ \A w \in Writers : \E j \in PostsOf(id) : posts[j].by = w

C15_Witness ==
  /\ wpc[1] = "done" /\ wpc[2] = "done"
  /\ \E j, k \in PostsOf(1) : posts[j].by = 1 /\ posts[k].by = 2
  /\ ideas[1].status = "processed"
  /\ written[1] = 1 /\ written[2] = 1

\* ------------------------------------------------ repeated writer runs ----

\* C14: an idea whose post was inserted and whose status update then
\* failed is left pending with that draft post; while it is among the
\* ideas a select returns, the next run can select it again; and a run
\* whose insert succeeds for an idea that has a post already leaves two
\* posts with that source_idea_id.
C14_UpdateFailureDuplicates ==
  /\ [](\A k \in DOMAIN wfail[1] :
          wfail[1][k] = "update" =>
            /\ wideas[1][k] \in Pending
            /\ PostsInRun(1, wideas[1][k]) = 1
            /\ \A j \in PostsOf(wideas[1][k]) : posts[j].status = "draft")
  /\ [](\A id \in Pending :
          (/\ PostsOf(id) # {}
           /\ wpc[1] = "done" /\ wrun[1] < lim.wruns
           /\ Cardinality(Pending) <= POSTS_PER_DAY) =>
            ENABLED (WSelect(1) /\ id \in Range(wideas'[1])))
  /\ [][(/\ wpc[1] = "save" /\ wpc'[1] = "update"
         /\ PostsOf(wideas[1][wi[1]]) # {}) =>
          /\ wideas[1][wi[1]] \in Pending
          /\ Cardinality({ j \in DOMAIN posts' :
                             posts'[j].source_idea_id = wideas[1][wi[1]] })
               = Cardinality(PostsOf(wideas[1][wi[1]])) + 1]_vars

C14_Witness ==
  /\ wrun[1] = 2 /\ wpc[1] = "update"
  /\ \E j, k \in PostsOf(wideas[1][wi[1]]) :
       posts[j].run = 1 /\ posts[k].run = 2
  /\ wideas[1][wi[1]] \in Pending

\* C20: when the writer is run again and again over a store that gets no
\* new ideas and every call succeeds when retried often enough, every
\* pending idea is processed in the end, also the ideas that scored lower
\* than three ideas of which one failed.
C20_EveryIdeaWritten == <>(Pending = {})

\* Idea 1 scored lower than the three other ideas, a call failed for one
\* of those, and the second run wrote that one and idea 1.
C20_Witness ==
  /\ Len(ideas) = POSTS_PER_DAY + 1 /\ Pending = {}
  /\ Score(1) < Score(2)
  /\ nfail = 1 /\ wrun[1] = 2 /\ wpc[1] = "done"
  /\ Len(wideas[1]) = 2 /\ wideas[1][2] = 1
  /\ \A j \in PostsOf(1) : posts[j].run = 2

====
